---- MODULE Spec2Model ----
(***************************************************************************)
(* Model of SRG (static resume generator): the layout token splitter       *)
(* (layout.rs parse_field_parts), the layout parser (layout.rs             *)
(* Layout::parse) and the HTML renderer (build.rs generate_html).          *)
(*                                                                         *)
(* Text is modelled as a sequence of one-character strings, so that        *)
(* splitting, trimming and escaping are computed character by character.   *)
(***************************************************************************)
EXTENDS Integers, Sequences, FiniteSets, TLC

VARIABLES
  line,               \* splitter: the line handed to parse_field_parts
  parts,              \* splitter: the Vec<FieldPart> it returned
  split_pc,           \* splitter: "start" | "done"
  consumed,           \* parser: the lines of `content` read so far
  sections,           \* parser: Vec<Section> built so far
  current_section,    \* parser: Option<Section>
  current_container,  \* parser: Option<Container>
  parse_pc,           \* parser: "loop" | "done" | "panic"
  layout,             \* renderer: the Layout passed to generate_html
  doc,                \* renderer: the JoblDocument passed to generate_html
  template,           \* renderer: the template selector
  result              \* renderer: what generate_html returned

split_vars == <<line, parts, split_pc>>
parse_vars == <<consumed, sections, current_section, current_container, parse_pc>>
render_vars == <<layout, doc, template, result>>
vars == <<line, parts, split_pc, consumed, sections, current_section,
          current_container, parse_pc, layout, doc, template, result>>

(***************************************************************************)
(* Bounds                                                                  *)
(***************************************************************************)
MaxLineLen == 4   \* longest line handed to the token splitter alone
MaxLines == 4     \* longest layout text, in lines, built from CoreLines
MaxSetup == 2     \* lines that may precede a line drawn from WideLines
MaxBodyLen == 4   \* longest trimmed text of a line drawn from WideLines
MaxIndent == 5    \* widest indentation of a line drawn from WideLines
MaxSections == 2  \* most sections of a rendered layout
MaxItems == 2     \* most items of each list of a rendered document

(***************************************************************************)
(* Characters and generic sequence helpers                                 *)
(***************************************************************************)
QUOTE == "\""
SPACE == " "
COLON == ":"

None == [some |-> FALSE]
Some(v) == [some |-> TRUE, val |-> v]

\* All sequences over S of length at most n.
SeqsUpTo(S, n) == UNION {[1..k -> S] : k \in 0..n}

\* s[a..b], empty when a > b.
Slice(s, a, b) == [i \in 1..(IF b >= a THEN b - a + 1 ELSE 0) |-> s[a + i - 1]]

RECURSIVE Flatten(_)
Flatten(ss) == IF ss = <<>> THEN <<>> ELSE Head(ss) \o Flatten(Tail(ss))

Contains(s, c) == \E i \in 1..Len(s) : s[i] = c

(***************************************************************************)
(* Token splitter: layout.rs parse_field_parts                             *)
(***************************************************************************)
FieldRef(text) == [kind |-> "Field", text |-> text]
Literal(text) == [kind |-> "Literal", text |-> text]

\* mutant: the buffer is pushed as a Reference also when it is empty
FlushFieldAlways(ps, current) == Append(ps, FieldRef(current))

\* `if !current.is_empty() { parts.push(FieldPart::Field(current.clone())) }`
FlushField(ps, current) ==
  IF current # <<>> THEN Append(ps, FieldRef(current)) ELSE ps

\* mutant: a closing quote drops an empty literal
CloseQuoteDropsEmpty(ps, current) ==
  IF current # <<>> THEN Append(ps, Literal(current)) ELSE ps

\* closing quote: `parts.push(FieldPart::Literal(current.clone()))`
CloseQuote(ps, current) == Append(ps, Literal(current))

\* after the loop: the remaining buffer
EndOfLine(ps, current, in_quote) ==
  IF current # <<>>
    THEN IF in_quote THEN Append(ps, Literal(current))
                     ELSE Append(ps, FieldRef(current))
    ELSE ps

RECURSIVE ScanChars(_, _, _, _, _)
ScanChars(l, i, ps, current, in_quote) ==
  IF i > Len(l) THEN EndOfLine(ps, current, in_quote)
  ELSE LET ch == l[i] IN
    IF ch = QUOTE THEN
      IF in_quote
        THEN ScanChars(l, i + 1, CloseQuote(ps, current), <<>>, FALSE)
        ELSE ScanChars(l, i + 1, FlushField(ps, current), <<>>, TRUE)
    ELSE IF ch = SPACE /\ ~in_quote THEN
      ScanChars(l, i + 1, FlushField(ps, current), <<>>, in_quote)
    ELSE
      ScanChars(l, i + 1, ps, Append(current, ch), in_quote)

parse_field_parts(l) == ScanChars(l, 1, <<>>, <<>>, FALSE)

(***************************************************************************)
(* String operations of the Rust standard library used by Layout::parse    *)
(***************************************************************************)
RECURSIVE TrimStart(_)
TrimStart(s) == IF s # <<>> /\ Head(s) = SPACE THEN TrimStart(Tail(s)) ELSE s

RECURSIVE TrimEndMatches(_, _)
TrimEndMatches(s, c) ==
  IF s # <<>> /\ s[Len(s)] = c THEN TrimEndMatches(SubSeq(s, 1, Len(s) - 1), c) ELSE s

TrimEnd(s) == TrimEndMatches(s, SPACE)
Trim(s) == TrimEnd(TrimStart(s))
EndsWith(s, c) == s # <<>> /\ s[Len(s)] = c

\* str::find: the 0-based byte offset of the first c, as an Option.
Find(s, c) ==
  IF Contains(s, c)
    THEN Some((CHOOSE i \in 1..Len(s) : s[i] = c /\ \A j \in 1..(i - 1) : s[j] # c) - 1)
    ELSE None

\* &s[..n] and &s[n..] with 0-based n; both panic when n > s.len().
SliceInRange(s, n) == n <= Len(s)
SliceTo(s, n) == Slice(s, 1, n)
SliceFrom(s, n) == Slice(s, n + 1, Len(s))

(***************************************************************************)
(* Layout data model: layout.rs lines 9-52                                 *)
(***************************************************************************)
Field_new(ps) == [tag |-> "Field", parts |-> ps, class_name |-> None]
Field_with_class(ps, class) == [tag |-> "Field", parts |-> ps, class_name |-> Some(class)]
Container(class, fs) == [tag |-> "Container", class_name |-> class, fields |-> fs]
Section(name, fs) == [name |-> name, fields |-> fs]

(***************************************************************************)
(* Layout::parse, one loop iteration per action                            *)
(***************************************************************************)
\* mutant: the indentation is counted in whole levels of two spaces
IndentLevelRounded(l) == 2 * ((Len(l) - Len(TrimStart(l))) \div 2)

\* `line.len() - line.trim_start().len()`
IndentLevel(l) == Len(l) - Len(TrimStart(l))

\* `trimmed.trim_end_matches(':').trim()`
ContainerName(trimmed) == Trim(TrimEndMatches(trimmed, COLON))

\* mutant: the emptiness test of the container name is dropped
IsContainerHeaderAllowEmpty(trimmed) ==
  /\ EndsWith(trimmed, COLON)
  /\ ~Contains(ContainerName(trimmed), QUOTE)
  /\ ~Contains(ContainerName(trimmed), SPACE)

\* the container test of lines 155-157
IsContainerHeader(trimmed) ==
  /\ EndsWith(trimmed, COLON)
  /\ ContainerName(trimmed) # <<>>
  /\ ~Contains(ContainerName(trimmed), QUOTE)
  /\ ~Contains(ContainerName(trimmed), SPACE)

\* mutant: the suffix slice starts one byte too far
AfterColonStartOffByOne(colon_pos) == colon_pos + 2

\* `colon_pos + 1`, the start of the suffix slice
AfterColonStart(colon_pos) == colon_pos + 1

\* mutant: the text before the colon is tested as it is, without `.trim()`
ClassSyntaxUntrimmed(trimmed) ==
  LET pos == Find(trimmed, COLON) IN
  IF ~pos.some THEN [found |-> FALSE, panic |-> FALSE, matched |-> FALSE,
                     before |-> <<>>, after |-> <<>>]
  ELSE LET before_colon == SliceTo(trimmed, pos.val)
           after_colon == Trim(SliceFrom(trimmed, AfterColonStart(pos.val)))
       IN [found |-> TRUE, panic |-> FALSE,
           matched |-> /\ before_colon # <<>>
                       /\ ~Contains(before_colon, QUOTE)
                       /\ ~Contains(before_colon, SPACE)
                       /\ after_colon # <<>>,
           before |-> before_colon, after |-> after_colon]

\* The custom class test of lines 167-172 (and 187-191): whether ':' was found,
\* whether one of the two slices panics, and whether the line is `class: definition`.
ClassSyntax(trimmed) ==
  LET pos == Find(trimmed, COLON) IN
  IF ~pos.some THEN [found |-> FALSE, panic |-> FALSE, matched |-> FALSE,
                     before |-> <<>>, after |-> <<>>]
  ELSE IF ~SliceInRange(trimmed, pos.val) \/ ~SliceInRange(trimmed, AfterColonStart(pos.val))
    THEN [found |-> TRUE, panic |-> TRUE, matched |-> FALSE, before |-> <<>>, after |-> <<>>]
  ELSE LET before_colon == Trim(SliceTo(trimmed, pos.val))
           after_colon == Trim(SliceFrom(trimmed, AfterColonStart(pos.val)))
       IN [found |-> TRUE, panic |-> FALSE,
           matched |-> /\ before_colon # <<>>
                       /\ ~Contains(before_colon, QUOTE)
                       /\ ~Contains(before_colon, SPACE)
                       /\ after_colon # <<>>,
           before |-> before_colon, after |-> after_colon]

\* `section.fields.push(..)` on an Option<Section> known to be Some
PushEntry(sec, entry) == Some(Section(sec.val.name, Append(sec.val.fields, entry)))

\* mutant: the open container is taken and never pushed on the section
CloseContainerDrops(sec, cont) == sec

\* lines 134-136, 149-151, 209-211: take the open container and push it on the
\* open section (the container is taken, and lost, also when no section is open)
CloseContainer(sec, cont) ==
  IF cont.some /\ sec.some THEN PushEntry(sec, Container(cont.val.class_name, cont.val.fields))
  ELSE sec

(***************************************************************************)
(* Layout texts the parser is run on.  A text is either up to MaxLines     *)
(* lines of CoreLines, or up to MaxSetup lines of SetupLines followed by   *)
(* one line of WideLines (every trimmed text over Alphabet up to           *)
(* MaxBodyLen, at every indentation up to MaxIndent).                      *)
(***************************************************************************)
Alphabet == {"a", COLON, QUOTE, SPACE}
Indented(n, body) == [i \in 1..n |-> SPACE] \o body

\* the field lines `"a:" a` and `a a: a` (a colon inside a quoted span, and a
\* space before the label's end)
ExampleBodies ==
  { <<QUOTE, "a", COLON, QUOTE, SPACE, "a">>,
    <<"a", SPACE, "a", COLON, SPACE, "a">> }

Bodies == {b \in SeqsUpTo(Alphabet, MaxBodyLen) :
             b # <<>> /\ b[1] # SPACE /\ b[Len(b)] # SPACE} \cup ExampleBodies
WideLines == {Indented(n, b) : n \in 0..MaxIndent, b \in Bodies}

SetupLines == {<<"s">>, Indented(2, <<"c", COLON>>)}
CoreLines == SetupLines \cup
  { <<"t">>,                                   \* a second section header
    Indented(2, <<"f">>),                      \* a plain field
    Indented(2, <<"k", COLON, "g">>),          \* a field with a class
    Indented(4, <<"h">>),                      \* a line of a container body
    Indented(3, <<"x">>),                      \* an odd indentation
    <<>>, <<SPACE, SPACE>> }                   \* blank lines

AllIn(c, S) == \A i \in 1..Len(c) : c[i] \in S

\* The lines that may follow the lines read so far.
NextLines ==
  (IF Len(consumed) < MaxLines /\ AllIn(consumed, CoreLines) THEN CoreLines ELSE {})
  \cup
  (IF Len(consumed) <= MaxSetup /\ AllIn(consumed, SetupLines) THEN WideLines ELSE {})

\* mutant: a section that has no entries is dropped when it is closed
CloseSectionDropsEmpty(secs, sec) ==
  IF sec.some /\ sec.val.fields # <<>> THEN Append(secs, sec.val) ELSE secs

\* lines 139-141, 214-216: `if let Some(section) = current_section.take()`
CloseSection(secs, sec) == IF sec.some THEN Append(secs, sec.val) ELSE secs

\* mutant: only the empty line counts as blank
IsBlankOnlyEmpty(l) == l = <<>>

\* `line.trim().is_empty()`
IsBlank(l) == Trim(l) = <<>>

ParseInit ==
  /\ consumed = <<>>
  /\ sections = <<>>
  /\ current_section = None
  /\ current_container = None
  /\ parse_pc = "loop"

\* `if line.trim().is_empty() { continue; }`
SkipBlankLine ==
  \E l \in NextLines :
    /\ parse_pc = "loop"
    /\ IsBlank(l)
    /\ consumed' = Append(consumed, l)
    /\ UNCHANGED <<sections, current_section, current_container, parse_pc>>
    /\ UNCHANGED <<split_vars, render_vars>>

\* indent_level == 0, lines 132-146
SectionHeader ==
  \E l \in NextLines :
    /\ parse_pc = "loop"
    /\ ~IsBlank(l)
    /\ IndentLevel(l) = 0
    /\ consumed' = Append(consumed, l)
    /\ LET closed == CloseContainer(current_section, current_container) IN
         sections' = CloseSection(sections, closed)
    /\ current_section' = Some(Section(Trim(l), <<>>))
    /\ current_container' = None
    /\ UNCHANGED parse_pc
    /\ UNCHANGED <<split_vars, render_vars>>

\* indent_level == 2 with no open section: lines 149-153 do nothing
FieldLineNoSection ==
  \E l \in NextLines :
    /\ parse_pc = "loop"
    /\ ~IsBlank(l)
    /\ IndentLevel(l) = 2
    /\ ~current_section.some
    /\ consumed' = Append(consumed, l)
    /\ current_container' = None
    /\ UNCHANGED <<sections, current_section, parse_pc>>
    /\ UNCHANGED <<split_vars, render_vars>>

\* mutant: a container is opened also when no section is open
OpenContainerWithoutSection ==
  \E l \in NextLines :
    /\ parse_pc = "loop"
    /\ ~IsBlank(l)
    /\ IndentLevel(l) = 2
    /\ IsContainerHeader(Trim(l))
    /\ consumed' = Append(consumed, l)
    /\ current_section' = CloseContainer(current_section, current_container)
    /\ current_container' = Some([class_name |-> ContainerName(Trim(l)), fields |-> <<>>])
    /\ UNCHANGED <<sections, parse_pc>>
    /\ UNCHANGED <<split_vars, render_vars>>

\* indent_level == 2, container definition: lines 149-163
OpenContainer ==
  \E l \in NextLines :
    /\ parse_pc = "loop"
    /\ ~IsBlank(l)
    /\ IndentLevel(l) = 2
    /\ current_section.some
    /\ IsContainerHeader(Trim(l))
    /\ consumed' = Append(consumed, l)
    /\ current_section' = CloseContainer(current_section, current_container)
    /\ current_container' = Some([class_name |-> ContainerName(Trim(l)), fields |-> <<>>])
    /\ UNCHANGED <<sections, parse_pc>>
    /\ UNCHANGED <<split_vars, render_vars>>

\* indent_level == 2, custom class syntax: lines 149-176
ClassField ==
  \E l \in NextLines :
    LET cs == ClassSyntax(Trim(l)) IN
    /\ parse_pc = "loop"
    /\ ~IsBlank(l)
    /\ IndentLevel(l) = 2
    /\ current_section.some
    /\ ~IsContainerHeader(Trim(l))
    /\ cs.panic \/ cs.matched
    /\ consumed' = Append(consumed, l)
    /\ current_container' = None
    /\ IF cs.panic
         THEN /\ parse_pc' = "panic"
              /\ UNCHANGED current_section
         ELSE /\ current_section' =
                   PushEntry(CloseContainer(current_section, current_container),
                             Field_with_class(parse_field_parts(cs.after), cs.before))
              /\ UNCHANGED parse_pc
    /\ UNCHANGED sections
    /\ UNCHANGED <<split_vars, render_vars>>

\* indent_level == 2, regular field: lines 149-181
PlainField ==
  \E l \in NextLines :
    LET cs == ClassSyntax(Trim(l)) IN
    /\ parse_pc = "loop"
    /\ ~IsBlank(l)
    /\ IndentLevel(l) = 2
    /\ current_section.some
    /\ ~IsContainerHeader(Trim(l))
    /\ ~cs.panic /\ ~cs.matched
    /\ consumed' = Append(consumed, l)
    /\ current_container' = None
    /\ current_section' =
         PushEntry(CloseContainer(current_section, current_container),
                   Field_new(parse_field_parts(Trim(l))))
    /\ UNCHANGED <<sections, parse_pc>>
    /\ UNCHANGED <<split_vars, render_vars>>

\* indent_level >= 4 with an open container, custom class syntax: lines 185-195
ContainerClassField ==
  \E l \in NextLines :
    LET cs == ClassSyntax(Trim(l)) IN
    /\ parse_pc = "loop"
    /\ ~IsBlank(l)
    /\ IndentLevel(l) >= 4
    /\ current_container.some
    /\ cs.panic \/ cs.matched
    /\ consumed' = Append(consumed, l)
    /\ IF cs.panic
         THEN /\ parse_pc' = "panic"
              /\ UNCHANGED current_container
         ELSE /\ current_container' =
                   Some([class_name |-> current_container.val.class_name,
                         fields |-> Append(current_container.val.fields,
                                      Field_with_class(parse_field_parts(cs.after), cs.before))])
              /\ UNCHANGED parse_pc
    /\ UNCHANGED <<sections, current_section>>
    /\ UNCHANGED <<split_vars, render_vars>>

\* indent_level >= 4 with an open container, regular field: lines 185-199
ContainerPlainField ==
  \E l \in NextLines :
    LET cs == ClassSyntax(Trim(l)) IN
    /\ parse_pc = "loop"
    /\ ~IsBlank(l)
    /\ IndentLevel(l) >= 4
    /\ current_container.some
    /\ ~cs.panic /\ ~cs.matched
    /\ consumed' = Append(consumed, l)
    /\ current_container' =
         Some([class_name |-> current_container.val.class_name,
               fields |-> Append(current_container.val.fields,
                                 Field_new(parse_field_parts(Trim(l))))])
    /\ UNCHANGED <<sections, current_section, parse_pc>>
    /\ UNCHANGED <<split_vars, render_vars>>

\* mutant: the custom class syntax is applied also when no container is open
DeepFieldOfSectionWithClass ==
  \E l \in NextLines :
    LET cs == ClassSyntax(Trim(l)) IN
    /\ parse_pc = "loop"
    /\ ~IsBlank(l)
    /\ IndentLevel(l) >= 4
    /\ ~current_container.some
    /\ current_section.some
    /\ consumed' = Append(consumed, l)
    /\ current_section' =
         PushEntry(current_section,
                   IF cs.matched
                     THEN Field_with_class(parse_field_parts(cs.after), cs.before)
                     ELSE Field_new(parse_field_parts(Trim(l))))
    /\ UNCHANGED <<sections, current_container, parse_pc>>
    /\ UNCHANGED <<split_vars, render_vars>>

\* indent_level >= 4 with no open container but an open section: lines 200-204
DeepFieldOfSection ==
  \E l \in NextLines :
    /\ parse_pc = "loop"
    /\ ~IsBlank(l)
    /\ IndentLevel(l) >= 4
    /\ ~current_container.some
    /\ current_section.some
    /\ consumed' = Append(consumed, l)
    /\ current_section' = PushEntry(current_section, Field_new(parse_field_parts(Trim(l))))
    /\ UNCHANGED <<sections, current_container, parse_pc>>
    /\ UNCHANGED <<split_vars, render_vars>>

\* a line no branch of the if/else chain takes: indent 1 or 3, or indent >= 4
\* with neither a container nor a section open
IgnoredLine ==
  \E l \in NextLines :
    /\ parse_pc = "loop"
    /\ ~IsBlank(l)
    /\ \/ IndentLevel(l) \in {1, 3}
       \/ IndentLevel(l) >= 4 /\ ~current_container.some /\ ~current_section.some
    /\ consumed' = Append(consumed, l)
    /\ UNCHANGED <<sections, current_section, current_container, parse_pc>>
    /\ UNCHANGED <<split_vars, render_vars>>

\* end of input, lines 208-218: close the container, close the section, Ok(Layout)
FinishParse ==
  /\ parse_pc = "loop"
  /\ LET closed == CloseContainer(current_section, current_container) IN
       sections' = CloseSection(sections, closed)
  /\ current_section' = None
  /\ current_container' = None
  /\ parse_pc' = "done"
  /\ UNCHANGED consumed
  /\ UNCHANGED <<split_vars, render_vars>>

ParseNext ==
  \/ SkipBlankLine
  \/ SectionHeader
  \/ FieldLineNoSection
  \/ OpenContainer
  \/ ClassField
  \/ PlainField
  \/ ContainerClassField
  \/ ContainerPlainField
  \/ DeepFieldOfSection
  \/ IgnoredLine
  \/ FinishParse

SplitIdle == line = <<>> /\ parts = <<>> /\ split_pc = "idle"
NoResult == [status |-> "none", html |-> <<>>, error |-> ""]
RenderIdle == layout = <<>> /\ doc = <<>> /\ template = "" /\ result = NoResult

ParseSpecInit == ParseInit /\ SplitIdle /\ RenderIdle

ParseSpec == ParseSpecInit /\ [][ParseNext]_vars

(***************************************************************************)
(* The token splitter run alone on every line over Alphabet up to          *)
(* MaxLineLen, and on the lines of the tests.                              *)
(***************************************************************************)
ExampleLines ==
  { <<"a", SPACE, QUOTE, "b", QUOTE, SPACE, "c">>,       \* a "b" c
    <<QUOTE, SPACE, "-", SPACE, QUOTE>>,                 \* " - "
    <<QUOTE, "x">>,                                      \* "x
    <<"n", SPACE, QUOTE, "a", "t", QUOTE, SPACE, "e">> } \* n "at" e

SplitInputs == SeqsUpTo(Alphabet, MaxLineLen) \cup ExampleLines

ParseIdle ==
  /\ consumed = <<>>
  /\ sections = <<>>
  /\ current_section = None
  /\ current_container = None
  /\ parse_pc = "idle"

SplitInit ==
  /\ line \in SplitInputs
  /\ parts = <<>>
  /\ split_pc = "start"
  /\ ParseIdle
  /\ RenderIdle

\* one call of parse_field_parts
SplitLine ==
  /\ split_pc = "start"
  /\ parts' = parse_field_parts(line)
  /\ split_pc' = "done"
  /\ UNCHANGED <<line, parse_vars, render_vars>>

SplitNext == SplitLine

SplitSpec == SplitInit /\ [][SplitNext]_vars

(***************************************************************************)
(* Renderer: build.rs.  The markup is a sequence of pieces: Markup(s) is   *)
(* text the renderer writes itself, Text(cs) is an interpolated value, as  *)
(* the characters that reach the output.                                   *)
(***************************************************************************)
Markup(s) == [k |-> "markup", v |-> <<s>>]
Text(cs) == [k |-> "text", v |-> cs]

Replace(s, c, r) == Flatten([i \in 1..Len(s) |-> IF s[i] = c THEN r ELSE <<s[i]>>])

\* escape_html, build.rs 611-617: five replacements, '&' first
escape_html(s) ==
  Replace(Replace(Replace(Replace(Replace(s,
    "&", <<"&", "a", "m", "p", ";">>),
    "<", <<"&", "l", "t", ";">>),
    ">", <<"&", "g", "t", ";">>),
    QUOTE, <<"&", "q", "u", "o", "t", ";">>),
    "'", <<"&", "#", "3", "9", ";">>)

\* Names matched by the renderer.
S_person == <<"p", "e", "r", "s", "o", "n">>
S_skills == <<"s", "k", "i", "l", "l", "s">>
S_experience == <<"e", "x", "p", "e", "r", "i", "e", "n", "c", "e">>
S_projects == <<"p", "r", "o", "j", "e", "c", "t", "s">>
S_education == <<"e", "d", "u", "c", "a", "t", "i", "o", "n">>
S_name == <<"n", "a", "m", "e">>
S_headline == <<"h", "e", "a", "d", "l", "i", "n", "e">>
S_email == <<"e", "m", "a", "i", "l">>
S_phone == <<"p", "h", "o", "n", "e">>
S_location == <<"l", "o", "c", "a", "t", "i", "o", "n">>
S_website == <<"w", "e", "b", "s", "i", "t", "e">>
S_summary == <<"s", "u", "m", "m", "a", "r", "y">>
S_title == <<"t", "i", "t", "l", "e">>
S_company == <<"c", "o", "m", "p", "a", "n", "y">>
S_highlights == <<"h", "i", "g", "h", "l", "i", "g", "h", "t", "s">>
S_start == <<"s", "t", "a", "r", "t">>
S_end == <<"e", "n", "d">>
S_url == <<"u", "r", "l">>
S_degree == <<"d", "e", "g", "r", "e", "e">>
S_institution == <<"i", "n", "s", "t", "i", "t", "u", "t", "i", "o", "n">>
S_details == <<"d", "e", "t", "a", "i", "l", "s">>

\* mutant: a Literal is written as it is, without escape_html
InlinePartsRawLiterals(ps, values) ==
  Flatten([i \in 1..Len(ps) |->
    IF ps[i].kind = "Literal" THEN <<Text(ps[i].text)>>
    ELSE IF values[i].some THEN <<Text(escape_html(values[i].val))>>
    ELSE <<>>])

\* The loop over field.parts of the inline rendering (192-204, 333-345,
\* 433-445, 531-543): a Literal escaped, a Reference looked up and escaped,
\* nothing for a Reference without a value.  values[i] is what the entity's
\* get_*_field_value returns for the Reference ps[i].
InlineParts(ps, values) ==
  Flatten([i \in 1..Len(ps) |->
    IF ps[i].kind = "Literal" THEN <<Text(escape_html(ps[i].text))>>
    ELSE IF values[i].some THEN <<Text(escape_html(values[i].val))>>
    ELSE <<>>])

IsSingleRef(field) == Len(field.parts) = 1 /\ field.parts[1].kind = "Field"

\* One optional value in a one-element structured fragment.
OptionalFragment(open, value, close) ==
  IF value.some THEN <<Markup(open), Text(escape_html(value.val)), Markup(close)>> ELSE <<>>

get_person_field_value(d, name) ==
  IF name = S_name THEN Some(d.person.name)
  ELSE IF name = S_headline THEN d.person.headline
  ELSE IF name = S_email THEN d.person.email
  ELSE IF name = S_phone THEN d.person.phone
  ELSE IF name = S_location THEN d.person.location
  ELSE IF name = S_website THEN d.person.website
  ELSE None

render_person_field(d, field) ==
  LET name == field.parts[1].text
      values == [i \in 1..Len(field.parts) |->
                   IF field.parts[i].kind = "Field"
                     THEN get_person_field_value(d, field.parts[i].text)
                     ELSE None]
  IN
  IF IsSingleRef(field) /\ name = S_name THEN
    <<Markup("      <h1 class=\"person-name\">"), Text(d.person.name), Markup("</h1>\n")>>
  ELSE IF IsSingleRef(field) /\ name = S_headline THEN
    OptionalFragment("      <p class=\"person-headline\">", d.person.headline, "</p>\n")
  ELSE IF IsSingleRef(field) /\ name = S_email THEN
    OptionalFragment("      <span class=\"person-email\">", d.person.email, "</span>\n")
  ELSE IF IsSingleRef(field) /\ name = S_phone THEN
    OptionalFragment("      <span class=\"person-phone\">", d.person.phone, "</span>\n")
  ELSE IF IsSingleRef(field) /\ name = S_location THEN
    OptionalFragment("      <span class=\"person-location\">", d.person.location, "</span>\n")
  ELSE IF IsSingleRef(field) /\ name = S_website THEN
    IF d.person.website.some
      THEN <<Markup("      <a class=\"person-website\" href=\""),
             Text(escape_html(d.person.website.val)), Markup("\">"),
             Text(escape_html(d.person.website.val)), Markup("</a>\n")>>
      ELSE <<>>
  ELSE <<Markup("      <p>")>> \o InlineParts(field.parts, values) \o <<Markup("</p>\n")>>

\* mutant: the e-mail address is always shown at the end of the header
render_person_section_shows_email(d, section) ==
  <<Markup("    <header id=\"person\" class=\"section section-person\">\n")>>
  \o Flatten([i \in 1..Len(section.fields) |-> render_person_field(d, section.fields[i])])
  \o OptionalFragment("      <span class=\"person-email\">", d.person.email, "</span>\n")
  \o <<Markup("    </header>\n")>>

\* render_person_section, build.rs 110-122
render_person_section(d, section) ==
  <<Markup("    <header id=\"person\" class=\"section section-person\">\n")>>
  \o Flatten([i \in 1..Len(section.fields) |-> render_person_field(d, section.fields[i])])
  \o <<Markup("    </header>\n")>>

render_summary_section(d) ==
  IF d.person.summary.some
    THEN <<Markup("    <section id=\"summary\" class=\"section section-summary\">\n"),
           Markup("      <h2>Summary</h2>\n"),
           Markup("      <p class=\"summary-text\">"),
           Text(escape_html(d.person.summary.val)), Markup("</p>\n"),
           Markup("    </section>\n")>>
    ELSE <<>>

\* `items.iter().map(|s| escape_html(s)).collect::<Vec<_>>().join(", ")`
JoinEscaped(items) ==
  Flatten([i \in 1..Len(items) |->
    (IF i > 1 THEN <<",", SPACE>> ELSE <<>>) \o escape_html(items[i])])

render_skills_section(d) ==
  IF d.skills.some /\ d.skills.val # <<>>
    THEN <<Markup("    <section id=\"skills\" class=\"section section-skills\">\n"),
           Markup("      <h2>Skills</h2>\n")>>
         \o Flatten([i \in 1..Len(d.skills.val) |->
              <<Markup("      <p class=\"skills-category\"><strong class=\"skills-category-name\">"),
                Text(escape_html(d.skills.val[i].category)),
                Markup(":</strong> <span class=\"skills-items\">"),
                Text(JoinEscaped(d.skills.val[i].items)),
                Markup("</span></p>\n")>>])
         \o <<Markup("    </section>\n")>>
    ELSE <<>>

\* mutant: the list element is written also for an empty list
ListFragmentAlways(open, items) ==
  <<Markup(open)>>
  \o Flatten([i \in 1..Len(items) |->
       <<Markup("          <li>"), Text(escape_html(items[i])), Markup("</li>\n")>>])
  \o <<Markup("        </ul>\n")>>

\* `<ul class=..>` with one `<li>` per string
ListFragment(open, items) ==
  IF items # <<>>
    THEN <<Markup(open)>>
         \o Flatten([i \in 1..Len(items) |->
              <<Markup("          <li>"), Text(escape_html(items[i])), Markup("</li>\n")>>])
         \o <<Markup("        </ul>\n")>>
    ELSE <<>>

get_experience_field_value(exp, name) ==
  IF name = S_title THEN Some(exp.title)
  ELSE IF name = S_company THEN Some(exp.company)
  ELSE IF name = S_location THEN exp.location
  ELSE IF name = S_start THEN exp.start
  ELSE IF name = S_end THEN exp.end
  ELSE IF name = S_summary THEN exp.summary
  ELSE None

render_experience_field(exp, field) ==
  LET name == field.parts[1].text
      values == [i \in 1..Len(field.parts) |->
                   IF field.parts[i].kind = "Field"
                     THEN get_experience_field_value(exp, field.parts[i].text)
                     ELSE None]
  IN
  IF field.parts = <<>> THEN <<>>
  ELSE IF IsSingleRef(field) /\ name = S_title THEN
    <<Markup("        <h3 class=\"experience-title\">"), Text(escape_html(exp.title)), Markup("</h3>\n")>>
  ELSE IF IsSingleRef(field) /\ name = S_company THEN
    <<Markup("        <p class=\"experience-company\">"), Text(escape_html(exp.company)), Markup("</p>\n")>>
  ELSE IF IsSingleRef(field) /\ name = S_summary THEN
    OptionalFragment("        <p class=\"experience-summary\">", exp.summary, "</p>\n")
  ELSE IF IsSingleRef(field) /\ name = S_highlights THEN
    ListFragment("        <ul class=\"experience-highlights\">\n", exp.highlights)
  ELSE <<Markup("        <p>")>> \o InlineParts(field.parts, values) \o <<Markup("</p>\n")>>

render_experience_section(d, section) ==
  IF d.experience = <<>> THEN <<>>
  ELSE
    <<Markup("    <section id=\"experience\" class=\"section section-experience\">\n"),
      Markup("      <h2>Experience</h2>\n")>>
    \o Flatten([e \in 1..Len(d.experience) |->
         <<Markup("      <div class=\"experience-item\">\n")>>
         \o Flatten([i \in 1..Len(section.fields) |->
              render_experience_field(d.experience[e], section.fields[i])])
         \o <<Markup("      </div>\n")>>])
    \o <<Markup("    </section>\n")>>

get_project_field_value(proj, name) ==
  IF name = S_name THEN Some(proj.name)
  ELSE IF name = S_url THEN proj.url
  ELSE IF name = S_summary THEN proj.summary
  ELSE None

render_project_field(proj, field) ==
  LET name == field.parts[1].text
      values == [i \in 1..Len(field.parts) |->
                   IF field.parts[i].kind = "Field"
                     THEN get_project_field_value(proj, field.parts[i].text)
                     ELSE None]
  IN
  IF field.parts = <<>> THEN <<>>
  ELSE IF IsSingleRef(field) /\ name = S_name THEN
    <<Markup("        <h3 class=\"projects-name\">"), Text(escape_html(proj.name)), Markup("</h3>\n")>>
  ELSE IF IsSingleRef(field) /\ name = S_url THEN
    IF proj.url.some
      THEN <<Markup("        <p class=\"projects-url\"><a href=\""),
             Text(escape_html(proj.url.val)), Markup("\">"),
             Text(escape_html(proj.url.val)), Markup("</a></p>\n")>>
      ELSE <<>>
  ELSE IF IsSingleRef(field) /\ name = S_summary THEN
    OptionalFragment("        <p class=\"projects-summary\">", proj.summary, "</p>\n")
  ELSE <<Markup("        <p>")>> \o InlineParts(field.parts, values) \o <<Markup("</p>\n")>>

render_projects_section(d, section) ==
  IF d.projects = <<>> THEN <<>>
  ELSE
    <<Markup("    <section id=\"projects\" class=\"section section-projects\">\n"),
      Markup("      <h2>Projects</h2>\n")>>
    \o Flatten([e \in 1..Len(d.projects) |->
         <<Markup("      <div class=\"projects-item\">\n")>>
         \o Flatten([i \in 1..Len(section.fields) |->
              render_project_field(d.projects[e], section.fields[i])])
         \o <<Markup("      </div>\n")>>])
    \o <<Markup("    </section>\n")>>

get_education_field_value(edu, name) ==
  IF name = S_degree THEN Some(edu.degree)
  ELSE IF name = S_institution THEN Some(edu.institution)
  ELSE IF name = S_location THEN edu.location
  ELSE IF name = S_start THEN edu.start
  ELSE IF name = S_end THEN edu.end
  ELSE None

render_education_field(edu, field) ==
  LET name == field.parts[1].text
      values == [i \in 1..Len(field.parts) |->
                   IF field.parts[i].kind = "Field"
                     THEN get_education_field_value(edu, field.parts[i].text)
                     ELSE None]
  IN
  IF field.parts = <<>> THEN <<>>
  ELSE IF IsSingleRef(field) /\ name = S_degree THEN
    <<Markup("        <h3 class=\"education-degree\">"), Text(escape_html(edu.degree)), Markup("</h3>\n")>>
  ELSE IF IsSingleRef(field) /\ name = S_institution THEN
    <<Markup("        <p class=\"education-institution\">"), Text(escape_html(edu.institution)), Markup("</p>\n")>>
  ELSE IF IsSingleRef(field) /\ name = S_details THEN
    ListFragment("        <ul class=\"education-details\">\n", edu.details)
  ELSE <<Markup("        <p>")>> \o InlineParts(field.parts, values) \o <<Markup("</p>\n")>>

render_education_section(d, section) ==
  IF d.education = <<>> THEN <<>>
  ELSE
    <<Markup("    <section id=\"education\" class=\"section section-education\">\n"),
      Markup("      <h2>Education</h2>\n")>>
    \o Flatten([e \in 1..Len(d.education) |->
         <<Markup("      <div class=\"education-item\">\n")>>
         \o Flatten([i \in 1..Len(section.fields) |->
              render_education_field(d.education[e], section.fields[i])])
         \o <<Markup("      </div>\n")>>])
    \o <<Markup("    </section>\n")>>

\* the match on section.name, build.rs 80-100
RenderSection(d, section) ==
  IF section.name = S_person THEN render_person_section(d, section)
  ELSE IF section.name = S_summary THEN render_summary_section(d)
  ELSE IF section.name = S_skills THEN render_skills_section(d)
  ELSE IF section.name = S_experience THEN render_experience_section(d, section)
  ELSE IF section.name = S_projects THEN render_projects_section(d, section)
  ELSE IF section.name = S_education THEN render_education_section(d, section)
  ELSE <<>>

DocumentHead(d) ==
  <<Markup("<!DOCTYPE html>\n"), Markup("<html lang=\"en\">\n"), Markup("<head>\n"),
    Markup("  <meta charset=\"UTF-8\">\n"),
    Markup("  <meta name=\"viewport\" content=\"width=device-width, initial-scale=1.0\">\n"),
    Markup("  <title>"), Text(d.person.name), Markup("</title>\n"),
    Markup("  <style>\n"), Markup("templates/minimal.css"), Markup("  </style>\n"),
    Markup("</head>\n"), Markup("<body>\n"), Markup("  <main>\n")>>

DocumentTail == <<Markup("  </main>\n"), Markup("</body>\n"), Markup("</html>\n")>>

\* mutant: the known sections are rendered in a fixed order, each once
generate_minimal_html_fixed_order(d, lay) ==
  LET Pick(n) == IF \E i \in 1..Len(lay) : lay[i].name = n
                   THEN RenderSection(d, lay[CHOOSE i \in 1..Len(lay) : lay[i].name = n])
                   ELSE <<>>
  IN DocumentHead(d)
     \o Pick(S_person) \o Pick(S_summary) \o Pick(S_skills)
     \o Pick(S_experience) \o Pick(S_projects) \o Pick(S_education)
     \o DocumentTail

\* generate_minimal_html, build.rs 57-108
generate_minimal_html(d, lay) ==
  DocumentHead(d)
  \o Flatten([i \in 1..Len(lay) |-> RenderSection(d, lay[i])])
  \o DocumentTail

\* mutant: an unknown template falls back to the minimal one
generate_html_falls_back(d, tpl, lay) ==
  [status |-> "ok", html |-> generate_minimal_html(d, lay), error |-> ""]

\* generate_html, build.rs 36-45
generate_html(d, tpl, lay) ==
  IF tpl = "minimal"
    THEN [status |-> "ok", html |-> generate_minimal_html(d, lay), error |-> ""]
    ELSE [status |-> "err", html |-> <<>>, error |-> "Unknown template"]

(***************************************************************************)
(* Documents and layouts the renderer is run on                            *)
(***************************************************************************)
Payloads == {<<"x">>, <<"<", "&", QUOTE>>}
OptionalKeys == {"headline", "email", "phone", "location", "website", "summary",
                 "skills", "start", "end", "url"}
PresenceChoices == {OptionalKeys, {}, {"email", "start", "skills"}}
Digit(k) == <<"0", "1", "2", "3", "4", "5", "6", "7", "8", "9">>[k + 1]

\* The value of the field tagged `tag` of item k: distinct per field and item.
Val(tag, k, v) == <<tag, Digit(k)>> \o v
Opt(present, key, value) == IF key \in present THEN Some(value) ELSE None

MkDoc(v, present, n, h) ==
  [ person |-> [ name |-> Val("N", 0, v),
                 headline |-> Opt(present, "headline", Val("H", 0, v)),
                 email |-> Opt(present, "email", Val("E", 0, v)),
                 phone |-> Opt(present, "phone", Val("P", 0, v)),
                 location |-> Opt(present, "location", Val("L", 0, v)),
                 website |-> Opt(present, "website", Val("W", 0, v)),
                 summary |-> Opt(present, "summary", Val("S", 0, v)) ],
    skills |-> Opt(present, "skills",
                 [k \in 1..n |-> [category |-> Val("c", k, v),
                                  items |-> [j \in 1..(h + 1) |-> Val("i", j, v)]]]),
    experience |-> [k \in 1..n |->
                 [ title |-> Val("t", k, v), company |-> Val("o", k, v),
                   location |-> Opt(present, "location", Val("l", k, v)),
                   start |-> Opt(present, "start", Val("b", k, v)),
                   end |-> Opt(present, "end", Val("e", k, v)),
                   summary |-> Opt(present, "summary", Val("s", k, v)),
                   highlights |-> [j \in 1..h |-> Val("h", j, v)] ]],
    projects |-> [k \in 1..n |->
                 [ name |-> Val("n", k, v),
                   url |-> Opt(present, "url", Val("u", k, v)),
                   summary |-> Opt(present, "summary", Val("s", k, v)) ]],
    education |-> [k \in 1..n |->
                 [ degree |-> Val("d", k, v), institution |-> Val("u", k, v),
                   location |-> Opt(present, "location", Val("l", k, v)),
                   start |-> Opt(present, "start", Val("b", k, v)),
                   end |-> Opt(present, "end", Val("e", k, v)),
                   details |-> [j \in 1..h |-> Val("d", j, v)] ]] ]

\* create_test_document of the integration tests
TestDocument ==
  [ person |-> [ name |-> <<"T", "e", "s", "t", " ", "U", "s", "e", "r">>,
                 headline |-> Some(<<"S", "o", "f", "t", "w", "a", "r", "e", " ", "E", "n", "g", "i", "n", "e", "e", "r">>),
                 email |-> Some(<<"t", "e", "s", "t", "@", "e", "x", "a", "m", "p", "l", "e", ".", "c", "o", "m">>),
                 phone |-> Some(<<"5", "5", "5", "-", "1", "2", "3", "4">>),
                 location |-> Some(<<"T", "e", "s", "t", " ", "C", "i", "t", "y">>),
                 website |-> Some(<<"h", "t", "t", "p", "s", ":", "/", "/", "e", "x", "a", "m", "p", "l", "e", ".", "c", "o", "m">>),
                 summary |-> Some(<<"T", "e", "s", "t", " ", "s", "u", "m", "m", "a", "r", "y">>) ],
    skills |-> Some(<<[category |-> <<"L", "a", "n", "g", "u", "a", "g", "e", "s">>, items |-> <<<<"R", "u", "s", "t">>>>]>>),
    experience |-> <<[ title |-> <<"E", "n", "g", "i", "n", "e", "e", "r">>, company |-> <<"T", "e", "s", "t", " ", "C", "o">>,
                       location |-> None,
                       start |-> Some(<<"2", "0", "2", "0">>), end |-> Some(<<"2", "0", "2", "4">>),
                       summary |-> Some(<<"D", "i", "d", " ", "t", "h", "i", "n", "g", "s">>),
                       highlights |-> <<<<"B", "u", "i", "l", "t", " ", "s", "t", "u", "f", "f">>>> ]>>,
    projects |-> <<>>,
    education |-> <<[ degree |-> <<"B", "S", " ", "C", "S">>, institution |-> <<"T", "e", "s", "t", " ", "U">>,
                      location |-> None,
                      start |-> Some(<<"2", "0", "1", "6">>), end |-> Some(<<"2", "0", "2", "0">>),
                      details |-> <<>> ]>> ]

Docs == {MkDoc(v, present, n, h) :
           v \in Payloads, present \in PresenceChoices, n \in 0..MaxItems, h \in 0..MaxItems}
        \cup {TestDocument}

RefNames == {S_name, S_headline, S_email, S_phone, S_location, S_website, S_summary,
             S_title, S_company, S_highlights, S_start, S_end, S_url, S_degree,
             S_institution, S_details, <<"z">>}
SectionNames == {S_person, S_summary, S_skills, S_experience, S_projects, S_education,
                 <<"f", "o", "o", "t", "e", "r">>}

\* The field lists of a section: one field that is a single Reference, for
\* every name, and the compositions below.
FieldLists ==
  {<<Field_new(<<FieldRef(n)>>)>> : n \in RefNames} \cup
  { <<>>,
    <<Field_new(<<>>)>>,
    <<Field_new(<<Literal(<<>>)>>)>>,
    <<Field_new(<<Literal(<<"<", "&", QUOTE>>)>>)>>,
    <<Field_new(<<FieldRef(S_start), Literal(<<SPACE, "-", SPACE>>), FieldRef(S_end)>>)>>,
    <<Field_new(<<FieldRef(S_name), Literal(<<"a", "t">>), FieldRef(S_email)>>)>>,
    <<Field_new(<<FieldRef(S_name)>>), Field_new(<<FieldRef(S_email)>>)>>,
    <<Field_with_class(<<FieldRef(S_phone)>>, <<"k">>), Field_new(<<>>),
      Field_new(<<FieldRef(S_name)>>)>> }

\* The fields of a section of a layout of several sections.
DefaultFields(name) ==
  IF name = S_person THEN <<Field_new(<<FieldRef(S_name)>>)>>
  ELSE IF name = S_experience THEN <<Field_new(<<FieldRef(S_title)>>)>>
  ELSE IF name = S_projects THEN <<Field_new(<<FieldRef(S_name)>>)>>
  ELSE IF name = S_education THEN <<Field_new(<<FieldRef(S_degree)>>)>>
  ELSE <<>>

Layouts ==
  {<<Section(n, fl)>> : n \in SectionNames, fl \in FieldLists} \cup
  {[i \in 1..Len(ns) |-> Section(ns[i], DefaultFields(ns[i]))] :
     ns \in SeqsUpTo(SectionNames, MaxSections)}

Templates == {"minimal", "jake"}

RenderInit ==
  /\ layout \in Layouts
  /\ doc \in Docs
  /\ template \in Templates
  /\ result = NoResult
  /\ SplitIdle
  /\ ParseIdle

\* generate_html with a known template
GenerateMinimal ==
  /\ result.status = "none"
  /\ template = "minimal"
  /\ result' = generate_html(doc, template, layout)
  /\ UNCHANGED <<layout, doc, template, split_vars, parse_vars>>

\* generate_html with any other template
GenerateUnknownTemplate ==
  /\ result.status = "none"
  /\ template # "minimal"
  /\ result' = generate_html(doc, template, layout)
  /\ UNCHANGED <<layout, doc, template, split_vars, parse_vars>>

RenderNext == GenerateMinimal \/ GenerateUnknownTemplate

RenderSpec == RenderInit /\ [][RenderNext]_vars

(***************************************************************************)
(* Properties of the renderer                                              *)
(***************************************************************************)
Entities == { <<"&", "a", "m", "p", ";">>, <<"&", "l", "t", ";">>, <<"&", "g", "t", ";">>,
              <<"&", "q", "u", "o", "t", ";">>, <<"&", "#", "3", "9", ";">> }
StartsAt(cs, i, sub) == i + Len(sub) - 1 <= Len(cs) /\ Slice(cs, i, i + Len(sub) - 1) = sub
\* No markup-significant character outside an entity.
WellEscaped(cs) ==
  \A i \in 1..Len(cs) :
    /\ cs[i] \notin {"<", ">", QUOTE, "'"}
    /\ cs[i] = "&" => \E ent \in Entities : StartsAt(cs, i, ent)
TextPieces(html) == {html[i].v : i \in {j \in 1..Len(html) : html[j].k = "text"}}
ContainsText(html, v) == \E cs \in TextPieces(html) : \E i \in 1..Len(cs) : StartsAt(cs, i, v)

\* C1 as stated: every value and literal interpolated into the markup that
\* generate_html returns is escaped, so no '<', '&' or '"' of a value reaches
\* the output as it is.
C1_EveryInterpolationEscaped ==
  result.status = "ok" => \A cs \in TextPieces(result.html) : WellEscaped(cs)

WithoutEmptyFields(lay) ==
  [i \in 1..Len(lay) |->
     Section(lay[i].name, SelectSeq(lay[i].fields, LAMBDA f : f.parts # <<>>))]

\* C2 as stated: a Field with zero parts appends nothing in any section kind,
\* so the markup is the markup of the layout without its zero-part fields.
C2_EmptyFieldRendersNothing ==
  result.status = "ok" =>
    result.html = generate_minimal_html(doc, WithoutEmptyFields(layout))

OptionalOf(section_name) ==
  IF section_name = S_person THEN {S_headline, S_email, S_phone, S_location, S_website}
  ELSE IF section_name = S_experience THEN {S_location, S_start, S_end, S_summary}
  ELSE IF section_name = S_projects THEN {S_url, S_summary}
  ELSE IF section_name = S_education THEN {S_location, S_start, S_end}
  ELSE {}
\* The document record field that holds the optional value `name`.
AbsentIn(rec, name) ==
  IF name = S_headline THEN ~rec.headline.some
  ELSE IF name = S_email THEN ~rec.email.some
  ELSE IF name = S_phone THEN ~rec.phone.some
  ELSE IF name = S_location THEN ~rec.location.some
  ELSE IF name = S_website THEN ~rec.website.some
  ELSE IF name = S_start THEN ~rec.start.some
  ELSE IF name = S_end THEN ~rec.end.some
  ELSE IF name = S_summary THEN ~rec.summary.some
  ELSE IF name = S_url THEN ~rec.url.some
  ELSE FALSE
ItemsOf(d, section_name) ==
  IF section_name = S_person THEN <<d.person>>
  ELSE IF section_name = S_experience THEN d.experience
  ELSE IF section_name = S_projects THEN d.projects
  ELSE IF section_name = S_education THEN d.education
  ELSE <<>>

\* C3 as stated: a field that is a single Reference to an optional field of
\* the entity emits nothing when the value is absent, so the markup is the
\* markup of the section without that field.
C3_AbsentOptionalEmitsNothing ==
  (/\ result.status = "ok"
   /\ Len(layout) = 1
   /\ Len(layout[1].fields) = 1
   /\ IsSingleRef(layout[1].fields[1])
   /\ layout[1].fields[1].parts[1].text \in OptionalOf(layout[1].name)
   /\ \A i \in 1..Len(ItemsOf(doc, layout[1].name)) :
        AbsentIn(ItemsOf(doc, layout[1].name)[i], layout[1].fields[1].parts[1].text))
  => result.html = generate_minimal_html(doc, <<Section(layout[1].name, <<>>)>>)

\* The section each opening tag belongs to.
OpenerName(m) ==
  IF m = "    <header id=\"person\" class=\"section section-person\">\n" THEN S_person
  ELSE IF m = "    <section id=\"summary\" class=\"section section-summary\">\n" THEN S_summary
  ELSE IF m = "    <section id=\"skills\" class=\"section section-skills\">\n" THEN S_skills
  ELSE IF m = "    <section id=\"experience\" class=\"section section-experience\">\n" THEN S_experience
  ELSE IF m = "    <section id=\"projects\" class=\"section section-projects\">\n" THEN S_projects
  ELSE IF m = "    <section id=\"education\" class=\"section section-education\">\n" THEN S_education
  ELSE <<>>
\* The sections of the markup, by their opening tags, in output order.
FragmentNames(html) ==
  LET openers == SelectSeq(html, LAMBDA pc : pc.k = "markup" /\ OpenerName(pc.v[1]) # <<>>)
  IN [i \in 1..Len(openers) |-> OpenerName(openers[i].v[1])]
HasData(d, section_name) ==
  \/ section_name = S_person
  \/ section_name = S_summary /\ d.person.summary.some
  \/ section_name = S_skills /\ d.skills.some /\ Len(d.skills.val) > 0
  \/ section_name = S_experience /\ Len(d.experience) > 0
  \/ section_name = S_projects /\ Len(d.projects) > 0
  \/ section_name = S_education /\ Len(d.education) > 0

\* C4: the section fragments of the markup are, in order, the sections of the
\* layout that have a recognized name and data in the document; a name that
\* occurs twice is rendered twice, an unrecognized name adds nothing.
C4_SectionOrder ==
  result.status = "ok" =>
    LET kept == SelectSeq(layout, LAMBDA sec : HasData(doc, sec.name))
    IN FragmentNames(result.html) = [i \in 1..Len(kept) |-> kept[i].name]

\* education before experience, both with items
C4_Witness ==
  /\ result.status = "ok"
  /\ Len(layout) = 2
  /\ layout[1].name = S_education
  /\ layout[2].name = S_experience
  /\ Len(doc.experience) > 0
  /\ FragmentNames(result.html) = <<S_education, S_experience>>

PersonOptional == {S_headline, S_email, S_phone, S_location, S_website}
References(lay, name) ==
  \E i \in 1..Len(lay) : \E j \in 1..Len(lay[i].fields) :
    \E k \in 1..Len(lay[i].fields[j].parts) :
      lay[i].fields[j].parts[k] = FieldRef(name)
WithPersonValue(d, name, value) ==
  [d EXCEPT !.person =
     IF name = S_headline THEN [@ EXCEPT !.headline = value]
     ELSE IF name = S_email THEN [@ EXCEPT !.email = value]
     ELSE IF name = S_phone THEN [@ EXCEPT !.phone = value]
     ELSE IF name = S_location THEN [@ EXCEPT !.location = value]
     ELSE [@ EXCEPT !.website = value]]
OtherValues == {None, Some(<<"q">>), Some(<<"<", "q">>)}
NameOnlyLayout == <<Section(S_person, <<Field_new(<<FieldRef(S_name)>>)>>)>>

\* C5: an optional person value that no field of the layout references does
\* not influence the markup (any other value, or none, gives the same markup),
\* and the markup of the layout whose only field is name contains the name
\* and none of email, phone, headline.
C5_UnreferencedValueHidden ==
  result.status = "ok" =>
    /\ \A name \in PersonOptional :
         ~References(layout, name) =>
           \A value \in OtherValues :
             generate_html(WithPersonValue(doc, name, value), template, layout) = result
    /\ layout = NameOnlyLayout =>
         /\ ContainsText(result.html, doc.person.name)
         /\ \A value \in {doc.person.email, doc.person.phone, doc.person.headline} :
              value.some => ~ContainsText(result.html, value.val)

\* the layout whose only field is name, a document with e-mail and headline
C5_Witness ==
  /\ result.status = "ok"
  /\ layout = NameOnlyLayout
  /\ doc.person.email.some
  /\ doc.person.headline.some
  /\ ContainsText(result.html, doc.person.name)

(***************************************************************************)
(* Properties of the token splitter                                        *)
(***************************************************************************)
\* Number of quotes strictly before position i.
QuotesBefore(l, i) == Cardinality({j \in 1..(i - 1) : l[j] = QUOTE})
IsOpeningQuote(l, i) == l[i] = QUOTE /\ QuotesBefore(l, i) % 2 = 0
IsClosingQuote(l, i) == l[i] = QUOTE /\ QuotesBefore(l, i) % 2 = 1
\* A character of a bare token: outside every quoted span, no quote, no space.
IsBare(l, i) == l[i] # QUOTE /\ l[i] # SPACE /\ QuotesBefore(l, i) % 2 = 0
OpenerOf(l, q) == CHOOSE p \in 1..(q - 1) : l[p] = QUOTE /\ \A j \in (p + 1)..(q - 1) : l[j] # QUOTE

\* The tokens of a line, each with the position where it starts.
ReferenceTokens(l) ==
  { <<a, FieldRef(Slice(l, a, b))>> : <<a, b>> \in
      { ab \in (1..Len(l)) \X (1..Len(l)) :
          /\ ab[1] <= ab[2]
          /\ \A i \in ab[1]..ab[2] : IsBare(l, i)
          /\ (ab[1] = 1 \/ ~IsBare(l, ab[1] - 1))
          /\ (ab[2] = Len(l) \/ ~IsBare(l, ab[2] + 1)) } }
ClosedLiteralTokens(l) ==
  { <<OpenerOf(l, q), Literal(Slice(l, OpenerOf(l, q) + 1, q - 1))>> :
      q \in {i \in 1..Len(l) : IsClosingQuote(l, i)} }
UnterminatedLiteralTokens(l) ==
  { <<p, Literal(Slice(l, p + 1, Len(l)))>> :
      p \in {i \in 1..Len(l) : /\ IsOpeningQuote(l, i)
                                /\ i < Len(l)
                                /\ \A j \in (i + 1)..Len(l) : l[j] # QUOTE} }

RECURSIVE InStartOrder(_)
InStartOrder(toks) ==
  IF toks = {} THEN <<>>
  ELSE LET first == CHOOSE t \in toks : \A u \in toks : t[1] <= u[1]
       IN <<first[2]>> \o InStartOrder(toks \ {first})

SplitBySpans(l) ==
  InStartOrder(ReferenceTokens(l) \cup ClosedLiteralTokens(l) \cup UnterminatedLiteralTokens(l))

\* C8: the parts returned for a line are its bare tokens as References, its
\* closed quoted spans as Literals (an empty span as an empty Literal) and a
\* non-empty unterminated span as a Literal, in source order; the three lines
\* of the tests split as the tests say.
C8_SplitMatchesSpans ==
  split_pc = "done" =>
    /\ parts = SplitBySpans(line)
    /\ line = <<"a", SPACE, QUOTE, "b", QUOTE, SPACE, "c">> =>
         parts = <<FieldRef(<<"a">>), Literal(<<"b">>), FieldRef(<<"c">>)>>
    /\ line = <<QUOTE, SPACE, "-", SPACE, QUOTE>> =>
         parts = <<Literal(<<SPACE, "-", SPACE>>)>>
    /\ line = <<QUOTE, "x">> => parts = <<Literal(<<"x">>)>>

\* a bare token directly followed by an empty quoted span
C8_Witness ==
  /\ split_pc = "done"
  /\ line = <<"a", QUOTE, QUOTE, "a">>
  /\ parts = <<FieldRef(<<"a">>), Literal(<<>>), FieldRef(<<"a">>)>>

(***************************************************************************)
(* Properties of the layout parser                                         *)
(***************************************************************************)
IsText(t) == DOMAIN t = 1..Len(t) /\ \A i \in 1..Len(t) : t[i] \in STRING
IsFieldPart(p) == p.kind \in {"Field", "Literal"} /\ IsText(p.text)
IsField(f) ==
  /\ f.tag = "Field"
  /\ \A i \in 1..Len(f.parts) : IsFieldPart(f.parts[i])
  /\ f.class_name.some => IsText(f.class_name.val)
IsContainer(c) ==
  /\ c.tag = "Container"
  /\ IsText(c.class_name)
  /\ \A i \in 1..Len(c.fields) : IsField(c.fields[i])
IsSection(sec) ==
  /\ IsText(sec.name)
  /\ \A i \in 1..Len(sec.fields) : IsField(sec.fields[i]) \/ IsContainer(sec.fields[i])
IsLayout(secs) == \A i \in 1..Len(secs) : IsSection(secs[i])

\* The line read by the step, when the step read one.
ReadsLine == Len(consumed') = Len(consumed) + 1
LineRead == consumed'[Len(consumed')]

\* C6: the parser never panics on a line, whatever its indentation, colons or
\* quotes, and at end of input it returns a well-formed Layout whose fields
\* hold the part sequences the token splitter returned.
C6_ParseNeverFails ==
  /\ parse_pc \in {"loop", "done"}
  /\ parse_pc = "done" => IsLayout(sections)

\* a field line that ends with ':' after a quote: both slices are taken, the
\* suffix slice at the very end of the line
C6_Witness ==
  /\ parse_pc = "done"
  /\ consumed = <<<<"s">>, Indented(2, <<QUOTE, COLON>>)>>
  /\ Len(sections) = 1
  /\ Len(sections[1].fields) = 1

\* The entry a field line adds.
FieldOfLine(l) ==
  IF ClassSyntax(Trim(l)).matched
    THEN Field_with_class(parse_field_parts(ClassSyntax(Trim(l)).after), ClassSyntax(Trim(l)).before)
    ELSE Field_new(parse_field_parts(Trim(l)))

NonBlankText(l) == \E i \in 1..Len(l) : l[i] # SPACE
LeadingSpaces(l) ==
  IF NonBlankText(l) THEN (CHOOSE i \in 1..Len(l) : l[i] # SPACE /\ \A j \in 1..(i - 1) : l[j] = SPACE) - 1
  ELSE Len(l)
\* The text of a non-blank line from its first to its last non-space character.
TextOf(l) ==
  Slice(l, LeadingSpaces(l) + 1,
        CHOOSE i \in 1..Len(l) : l[i] # SPACE /\ \A j \in (i + 1)..Len(l) : l[j] = SPACE)
HeaderIndexes(c) == {i \in 1..Len(c) : NonBlankText(c[i]) /\ LeadingSpaces(c[i]) = 0}
FieldIndexes(c) == {i \in 1..Len(c) : NonBlankText(c[i]) /\ LeadingSpaces(c[i]) = 2}

RECURSIVE Ascending(_)
Ascending(S) ==
  IF S = {} THEN <<>>
  ELSE LET m == CHOOSE x \in S : \A y \in S : x <= y IN <<m>> \o Ascending(S \ {m})

\* Only indent-0 and indent-2 non-blank lines, none of which the parser takes
\* as a container header.
SimpleText(c) ==
  \A i \in 1..Len(c) :
    NonBlankText(c[i]) =>
      /\ LeadingSpaces(c[i]) \in {0, 2}
      /\ LeadingSpaces(c[i]) = 2 => ~IsContainerHeader(TextOf(c[i]))

\* C7: for a text of indent-0 and indent-2 lines without container headers,
\* the Layout has one Section per indent-0 line, in source order, named by
\* the trimmed line, and the entries of each Section are the fields of the
\* indent-2 lines between its header and the next header, in source order
\* (none for a header that no field line follows).
C7_SimpleLayout ==
  (parse_pc = "done" /\ SimpleText(consumed)) =>
    LET hs == Ascending(HeaderIndexes(consumed)) IN
    /\ Len(sections) = Len(hs)
    /\ \A k \in 1..Len(hs) :
         LET next == IF k < Len(hs) THEN hs[k + 1] ELSE Len(consumed) + 1
             fs == Ascending({i \in FieldIndexes(consumed) : hs[k] < i /\ i < next})
         IN /\ sections[k].name = TextOf(consumed[hs[k]])
            /\ sections[k].fields = [j \in 1..Len(fs) |-> FieldOfLine(consumed[fs[j]])]

\* two sections, the first with two fields in source order, the second empty
C7_Witness ==
  /\ parse_pc = "done"
  /\ consumed = <<<<"s">>, Indented(2, <<"k", COLON, "g">>), Indented(2, <<"f">>), <<"t">>>>
  /\ Len(sections) = 2
  /\ Len(sections[1].fields) = 2
  /\ sections[2].fields = <<>>

\* C9: reading an empty or whitespace-only line changes nothing of the
\* parser's state (sections, open section, open container), so the Layout
\* returned for a text is the one returned for the text without its blank
\* lines.
C9_BlankLinesAreSkipped ==
  [][(ReadsLine /\ ~NonBlankText(LineRead)) =>
       UNCHANGED <<sections, current_section, current_container, parse_pc>>]_vars

\* a blank line between a container header and its body line
C9_Witness ==
  /\ parse_pc = "done"
  /\ consumed = <<<<"s">>, Indented(2, <<"c", COLON>>), <<SPACE, SPACE>>, Indented(4, <<"h">>)>>
  /\ Len(sections) = 1
  /\ Len(sections[1].fields) = 1
  /\ sections[1].fields[1].tag = "Container"
  /\ Len(sections[1].fields[1].fields) = 1

\* The text of a line before its trailing colons.
BeforeTrailingColons(t) ==
  LET n == IF \E i \in 1..Len(t) : t[i] # COLON
             THEN CHOOSE i \in 1..Len(t) : t[i] # COLON /\ \A j \in (i + 1)..Len(t) : t[j] = COLON
             ELSE 0
  IN Slice(t, 1, n)
EndsWithColonAt2(l) ==
  /\ NonBlankText(l)
  /\ LeadingSpaces(l) = 2
  /\ l[Len(l)] = COLON
OpensContainerNamed(name) ==
  /\ current_container' = Some([class_name |-> name, fields |-> <<>>])
  /\ current_section' = CloseContainer(current_section, current_container)
  /\ UNCHANGED sections

\* C10 as stated: at indent 2 with a section open, every line that ends with
\* ':' and has no quote and no space before it opens a container and adds no
\* Field, the line ':' alone included.
C10_Original ==
  [][(/\ ReadsLine
      /\ parse_pc = "loop"
      /\ current_section.some
      /\ EndsWithColonAt2(LineRead)
      /\ ~Contains(BeforeTrailingColons(TextOf(LineRead)), QUOTE)
      /\ ~Contains(BeforeTrailingColons(TextOf(LineRead)), SPACE))
     => OpensContainerNamed(BeforeTrailingColons(TextOf(LineRead)))]_vars

\* C10 amended: at indent 2 with a section open, a line that ends with ':' and
\* whose text before its trailing colons is non-empty and has no quote and no
\* space opens a container named by that text and adds no Field; a line made
\* of colons only opens no container and is a plain field whose one part is a
\* Reference to the line itself.
C10_ContainerHeader ==
  [][(/\ ReadsLine
      /\ parse_pc = "loop"
      /\ current_section.some
      /\ EndsWithColonAt2(LineRead)
      /\ ~Contains(BeforeTrailingColons(TextOf(LineRead)), QUOTE)
      /\ ~Contains(BeforeTrailingColons(TextOf(LineRead)), SPACE))
     => IF BeforeTrailingColons(TextOf(LineRead)) # <<>>
          THEN OpensContainerNamed(BeforeTrailingColons(TextOf(LineRead)))
          ELSE /\ current_container' = None
               /\ current_section' =
                    PushEntry(CloseContainer(current_section, current_container),
                              Field_new(<<FieldRef(TextOf(LineRead))>>))
               /\ UNCHANGED sections]_vars

\* a header with two trailing colons, read while another container is open
C10_Witness ==
  /\ parse_pc = "loop"
  /\ consumed = <<<<"s">>, Indented(2, <<"c", COLON>>), Indented(2, <<"a", COLON, COLON>>)>>
  /\ current_container = Some([class_name |-> <<"a">>, fields |-> <<>>])
  /\ Len(current_section.val.fields) = 1

\* The text before and after the first ':' of a text that has one.
FirstColon(t) == CHOOSE i \in 1..Len(t) : t[i] = COLON /\ \A j \in 1..(i - 1) : t[j] # COLON
BeforeFirstColon(t) == Slice(t, 1, FirstColon(t) - 1)
AfterFirstColon(t) == Slice(t, FirstColon(t) + 1, Len(t))
\* A text without the spaces at its end.
WithoutTrailingSpaces(s) ==
  LET n == IF \E i \in 1..Len(s) : s[i] # SPACE
             THEN CHOOSE i \in 1..Len(s) : s[i] # SPACE /\ \A j \in (i + 1)..Len(s) : s[j] = SPACE
             ELSE 0
  IN Slice(s, 1, n)
IsClassLabel(p) == p # <<>> /\ ~Contains(p, QUOTE) /\ ~Contains(p, SPACE)

\* A step that reads an indent-2 line, with a section open, which the parser
\* does not take as a container header.
ReadsFieldLineAt2 ==
  /\ ReadsLine
  /\ parse_pc = "loop"
  /\ current_section.some
  /\ NonBlankText(LineRead)
  /\ LeadingSpaces(LineRead) = 2
  /\ ~IsContainerHeader(TextOf(LineRead))
\* The step closes the open container, if any, and appends the field.
AddsFieldToSection(field) ==
  /\ current_container' = None
  /\ current_section' = PushEntry(CloseContainer(current_section, current_container), field)
  /\ UNCHANGED <<sections, parse_pc>>

\* C11 as stated: an indent-2 line that is not a container header is a field
\* with a class override exactly when it has a ':' , the text before the
\* first ':' is non-empty with no quote and no space, and the text after it is
\* non-empty; then the class label is that prefix and the parts are the token
\* split of the suffix; otherwise it is a plain field of the whole line.
C11_Original ==
  [][ReadsFieldLineAt2 =>
       LET t == TextOf(LineRead) IN
       IF /\ Contains(t, COLON)
          /\ IsClassLabel(BeforeFirstColon(t))
          /\ AfterFirstColon(t) # <<>>
         THEN AddsFieldToSection(
                Field_with_class(parse_field_parts(AfterFirstColon(t)), BeforeFirstColon(t)))
         ELSE AddsFieldToSection(Field_new(parse_field_parts(t)))]_vars

\* C11 amended: the prefix is taken without the spaces at its end, so the
\* line `a :a` is a field with class label `a` and the parts of `a`; a line
\* whose prefix still has a quote or a space (`"a:" a`, `a a: a`) is a plain
\* field of the whole line.
C11_ClassOverride ==
  [][ReadsFieldLineAt2 =>
       LET t == TextOf(LineRead) IN
       /\ (LineRead = Indented(2, <<"a", SPACE, "a", COLON, SPACE, "a">>)
            \/ LineRead = Indented(2, <<QUOTE, "a", COLON, QUOTE, SPACE, "a">>))
           => AddsFieldToSection(Field_new(parse_field_parts(t)))
       /\ IF /\ Contains(t, COLON)
             /\ IsClassLabel(WithoutTrailingSpaces(BeforeFirstColon(t)))
             /\ AfterFirstColon(t) # <<>>
            THEN AddsFieldToSection(
                   Field_with_class(parse_field_parts(AfterFirstColon(t)),
                                    WithoutTrailingSpaces(BeforeFirstColon(t))))
            ELSE AddsFieldToSection(Field_new(parse_field_parts(t)))]_vars

\* the line `a :a` read in a section: class label `a`, one Reference
C11_Witness ==
  /\ parse_pc = "loop"
  /\ consumed = <<<<"s">>, Indented(2, <<"a", SPACE, COLON, "a">>)>>
  /\ current_section.val.fields = <<Field_with_class(<<FieldRef(<<"a">>)>>, <<"a">>)>>

\* The field of a text by the `label: tokens` rule: a class override when the
\* text before the first ':' (spaces at its end removed) is a label and the
\* text after it is non-empty, a plain field of the whole text otherwise.
ClassifiedField(t) ==
  IF /\ Contains(t, COLON)
     /\ IsClassLabel(WithoutTrailingSpaces(BeforeFirstColon(t)))
     /\ AfterFirstColon(t) # <<>>
    THEN Field_with_class(parse_field_parts(AfterFirstColon(t)),
                          WithoutTrailingSpaces(BeforeFirstColon(t)))
    ELSE Field_new(parse_field_parts(t))

\* A step that reads a non-blank line indented by four or more.
ReadsDeepLine ==
  /\ ReadsLine
  /\ parse_pc = "loop"
  /\ NonBlankText(LineRead)
  /\ LeadingSpaces(LineRead) >= 4

\* C12: a line with indent >= 4 opens and closes no container.  With a
\* container open its field (class override or plain) is appended to the
\* container and the section is left as it is; with no container open it is
\* appended to the open section as a plain field of the whole trimmed line,
\* also when the line has the form `label: tokens` or `label:`.
C12_DeepLines ==
  [][ReadsDeepLine =>
       IF current_container.some
         THEN /\ current_container' =
                   Some([class_name |-> current_container.val.class_name,
                         fields |-> Append(current_container.val.fields,
                                           ClassifiedField(TextOf(LineRead)))])
              /\ UNCHANGED <<sections, current_section, parse_pc>>
       ELSE IF current_section.some
         THEN /\ current_container' = None
              /\ current_section' =
                   PushEntry(current_section, Field_new(parse_field_parts(TextOf(LineRead))))
              /\ UNCHANGED <<sections, parse_pc>>
       ELSE UNCHANGED <<sections, current_section, current_container, parse_pc>>]_vars

\* the line `a:a` at indent 4 with no container open: a plain field whose one
\* part is the Reference `a:a`
C12_Witness ==
  /\ parse_pc = "loop"
  /\ consumed = <<<<"s">>, Indented(4, <<"a", COLON, "a">>)>>
  /\ current_container = None
  /\ current_section.val.fields = <<Field_new(<<FieldRef(<<"a", COLON, "a">>)>>)>>

\* Lines of a text c, by index: the lines that close an open container, the
\* container headers, the lines indented by four or more.
ClosesContainer(c, i) == NonBlankText(c[i]) /\ LeadingSpaces(c[i]) \in {0, 2}
IsHeaderLine(c, i) ==
  /\ NonBlankText(c[i])
  /\ LeadingSpaces(c[i]) = 2
  /\ IsContainerHeader(TextOf(c[i]))
IsDeepLine(c, i) == NonBlankText(c[i]) /\ LeadingSpaces(c[i]) >= 4
NextClose(c, i) ==
  IF \E j \in (i + 1)..Len(c) : ClosesContainer(c, j)
    THEN CHOOSE j \in (i + 1)..Len(c) :
           ClosesContainer(c, j) /\ \A k \in (i + 1)..(j - 1) : ~ClosesContainer(c, k)
    ELSE Len(c) + 1
LastCloseBefore(c, i) ==
  CHOOSE j \in 1..(i - 1) :
    ClosesContainer(c, j) /\ \A k \in (j + 1)..(i - 1) : ~ClosesContainer(c, k)
\* The fields of the deep lines that follow the header at i up to the next
\* indent-0 or indent-2 line.
BodyOf(c, i) ==
  LET ds == Ascending({j \in (i + 1)..(NextClose(c, i) - 1) : IsDeepLine(c, j)})
  IN [n \in 1..Len(ds) |-> ClassifiedField(TextOf(c[ds[n]]))]
\* A line inside a section that introduces an entry of the section: every
\* indent-2 line, and a deep line read while no container is open.
IntroducesEntry(c, i) ==
  \/ NonBlankText(c[i]) /\ LeadingSpaces(c[i]) = 2
  \/ IsDeepLine(c, i) /\ ~IsHeaderLine(c, LastCloseBefore(c, i))
EntryOf(c, i) ==
  IF LeadingSpaces(c[i]) = 2
    THEN IF IsHeaderLine(c, i)
           THEN Container(WithoutTrailingSpaces(BeforeTrailingColons(TextOf(c[i]))), BodyOf(c, i))
           ELSE ClassifiedField(TextOf(c[i]))
    ELSE Field_new(parse_field_parts(TextOf(c[i])))

\* C16: in the returned Layout every section holds, in the source order of
\* the lines that introduced them, one entry per introducing line: for each
\* container header exactly one Container (also without body lines, also when
\* it was still open at an indent-0 line or at end of input) whose fields are
\* those of the indent >= 4 lines that follow the header up to the next
\* indent-0 or indent-2 line, in source order.
C16_ContainersSurvive ==
  parse_pc = "done" =>
    LET hs == Ascending(HeaderIndexes(consumed)) IN
    /\ Len(sections) = Len(hs)
    /\ \A k \in 1..Len(hs) :
         LET next == IF k < Len(hs) THEN hs[k + 1] ELSE Len(consumed) + 1
             es == Ascending({i \in (hs[k] + 1)..(next - 1) : IntroducesEntry(consumed, i)})
         IN sections[k].fields = [n \in 1..Len(es) |-> EntryOf(consumed, es[n])]

\* a container with one body line, still open when the next section starts
C16_Witness ==
  /\ parse_pc = "done"
  /\ consumed = <<<<"s">>, Indented(2, <<"c", COLON>>), Indented(4, <<"h">>), <<"t">>>>
  /\ Len(sections) = 2
  /\ sections[1].fields = <<Container(<<"c">>, <<Field_new(<<FieldRef(<<"h">>)>>)>>)>>

\* C17: a container is open only while a section is open; before the first
\* indent-0 line nothing is open and the Layout is empty, whatever field or
\* container-header lines were read; every Field and Container of the Layout
\* is an entry of a Section.
C17_ContainerNeedsSection ==
  /\ current_container.some => current_section.some
  /\ HeaderIndexes(consumed) = {} =>
       sections = <<>> /\ current_section = None /\ current_container = None
  /\ IsLayout(sections)

\* a container header and a body line read before any section header
C17_Witness ==
  /\ parse_pc = "done"
  /\ consumed = <<Indented(2, <<"c", COLON>>), Indented(4, <<"h">>)>>
  /\ sections = <<>>

\* C18: reading a non-blank line whose leading-whitespace width is 1 or 3
\* leaves the parser's state as it was: no section, field or container is
\* added and the open container and section stay open.
C18_OddIndentIgnored ==
  [][(ReadsLine /\ NonBlankText(LineRead) /\ LeadingSpaces(LineRead) \in {1, 3}) =>
       UNCHANGED <<sections, current_section, current_container, parse_pc>>]_vars

\* a line of indent 3 read while a container is open: the container stays
\* open and empty
C18_Witness ==
  /\ parse_pc = "loop"
  /\ consumed = <<<<"s">>, Indented(2, <<"c", COLON>>), Indented(3, <<"a", COLON, "a">>)>>
  /\ current_container = Some([class_name |-> <<"c">>, fields |-> <<>>])
  /\ current_section = Some(Section(<<"s">>, <<>>))

\* The characters of a line that are neither a quote nor a space outside
\* every quoted span, in order.
KeptCharacters(l) ==
  LET keep == Ascending({i \in 1..Len(l) :
                /\ l[i] # QUOTE
                /\ ~(l[i] = SPACE /\ QuotesBefore(l, i) % 2 = 0)})
  IN [n \in 1..Len(keep) |-> l[keep[n]]]

\* C19: of the parts returned for a line, no Reference is empty or holds a
\* space or a quote, no Literal holds a quote, and the texts of the parts
\* concatenated in order are the line without its quotes and its unquoted
\* spaces.
C19_PartsKeepCharacters ==
  split_pc = "done" =>
    /\ \A i \in 1..Len(parts) :
         /\ parts[i].kind = "Field" =>
              /\ parts[i].text # <<>>
              /\ ~Contains(parts[i].text, SPACE)
              /\ ~Contains(parts[i].text, QUOTE)
         /\ parts[i].kind = "Literal" => ~Contains(parts[i].text, QUOTE)
    /\ Flatten([i \in 1..Len(parts) |-> parts[i].text]) = KeptCharacters(line)

\* an unquoted space dropped and a quoted space kept
C19_Witness ==
  /\ split_pc = "done"
  /\ line = <<"a", SPACE, QUOTE, SPACE>>
  /\ parts = <<FieldRef(<<"a">>), Literal(<<SPACE>>)>>

(***************************************************************************)
(* Properties of the renderer: inline composition, lists, templates        *)
(***************************************************************************)
\* The escaped form of a text, character by character.
EscapedChar(c) ==
  IF c = "&" THEN <<"&", "a", "m", "p", ";">>
  ELSE IF c = "<" THEN <<"&", "l", "t", ";">>
  ELSE IF c = ">" THEN <<"&", "g", "t", ";">>
  ELSE IF c = QUOTE THEN <<"&", "q", "u", "o", "t", ";">>
  ELSE IF c = "'" THEN <<"&", "#", "3", "9", ";">>
  ELSE <<c>>
EscapedText(cs) == Flatten([i \in 1..Len(cs) |-> EscapedChar(cs[i])])

\* The names an entity of a section kind has a field for.
FieldNamesOf(section_name) ==
  IF section_name = S_person
    THEN {S_name, S_headline, S_email, S_phone, S_location, S_website}
  ELSE IF section_name = S_experience
    THEN {S_title, S_company, S_location, S_start, S_end, S_summary, S_highlights}
  ELSE IF section_name = S_projects THEN {S_name, S_url, S_summary}
  ELSE IF section_name = S_education
    THEN {S_degree, S_institution, S_location, S_start, S_end, S_details}
  ELSE {}
\* The value a Reference resolves to inside an inline composition.
ResolvedValue(section_name, item, name) ==
  IF section_name = S_person THEN get_person_field_value([person |-> item], name)
  ELSE IF section_name = S_experience THEN get_experience_field_value(item, name)
  ELSE IF section_name = S_projects THEN get_project_field_value(item, name)
  ELSE get_education_field_value(item, name)

\* A field of the generic inline path: more than one part, or one part that is
\* a Literal or a Reference to a name the entity has no field for.
IsGenericInline(section_name, field) ==
  \/ Len(field.parts) > 1
  \/ /\ Len(field.parts) = 1
     /\ \/ field.parts[1].kind = "Literal"
        \/ field.parts[1].text \notin FieldNamesOf(section_name)

\* The markup between the opening and the closing tag of each item (of the
\* header, for the person), in output order.
ItemOpeners ==
  { "    <header id=\"person\" class=\"section section-person\">\n",
    "      <div class=\"experience-item\">\n",
    "      <div class=\"projects-item\">\n",
    "      <div class=\"education-item\">\n" }
ItemClosers == {"    </header>\n", "      </div>\n"}
IsMarkupIn(pc, S) == pc.k = "markup" /\ pc.v[1] \in S
ItemBodies(html) ==
  LET opens == Ascending({i \in 1..Len(html) : IsMarkupIn(html[i], ItemOpeners)})
      CloserAfter(i) == CHOOSE j \in (i + 1)..Len(html) :
                          /\ IsMarkupIn(html[j], ItemClosers)
                          /\ \A k \in (i + 1)..(j - 1) : ~IsMarkupIn(html[k], ItemClosers)
  IN [n \in 1..Len(opens) |-> Slice(html, opens[n] + 1, CloserAfter(opens[n]) - 1)]

\* The inner text an inline composition must have for an item.
InlineText(section_name, item, field) ==
  Flatten([i \in 1..Len(field.parts) |->
    IF field.parts[i].kind = "Literal" THEN EscapedText(field.parts[i].text)
    ELSE IF ResolvedValue(section_name, item, field.parts[i].text).some
      THEN EscapedText(ResolvedValue(section_name, item, field.parts[i].text).val)
    ELSE <<>>])
\* One wrapping <p> element around text pieces whose concatenation is txt.
IsOneWrapperAround(body, txt) ==
  /\ Len(body) >= 2
  /\ IsMarkupIn(body[1], {"      <p>", "        <p>"})
  /\ IsMarkupIn(body[Len(body)], {"</p>\n"})
  /\ \A i \in 2..(Len(body) - 1) : body[i].k = "text"
  /\ Flatten([i \in 1..(Len(body) - 2) |-> body[i + 1].v]) = txt

DateRangeField ==
  Field_new(<<FieldRef(S_start), Literal(<<SPACE, "-", SPACE>>), FieldRef(S_end)>>)

\* C13: a section of one field of the generic inline path renders, for each
\* item, exactly one wrapping element whose inner text is the concatenation,
\* in order, of the escaped Literals and the escaped values of the References,
\* an absent or unknown Reference adding nothing; the field `start " - " end`
\* of the experience item with start 2020 and end 2024 has the inner text
\* `2020 - 2024`.
C13_InlineComposition ==
  (/\ result.status = "ok"
   /\ Len(layout) = 1
   /\ Len(layout[1].fields) = 1
   /\ IsGenericInline(layout[1].name, layout[1].fields[1]))
  => LET items == ItemsOf(doc, layout[1].name)
         bodies == ItemBodies(result.html)
     IN /\ Len(bodies) = Len(items)
        /\ \A k \in 1..Len(items) :
             IsOneWrapperAround(bodies[k], InlineText(layout[1].name, items[k], layout[1].fields[1]))
        /\ (layout = <<Section(S_experience, <<DateRangeField>>)>> /\ doc = TestDocument)
             => IsOneWrapperAround(bodies[1],
                  <<"2", "0", "2", "0", SPACE, "-", SPACE, "2", "0", "2", "4">>)

\* `start " - " end` rendered for the experience item of the tests
C13_Witness ==
  /\ result.status = "ok"
  /\ layout = <<Section(S_experience, <<DateRangeField>>)>>
  /\ doc = TestDocument
  /\ Len(ItemBodies(result.html)) = 1
  /\ Len(ItemBodies(result.html)[1]) = 5

\* The list a list-valued field of an item holds.
ListOf(section_name, item) ==
  IF section_name = S_experience THEN item.highlights ELSE item.details
IsListField(section_name, field) ==
  /\ IsSingleRef(field)
  /\ \/ section_name = S_experience /\ field.parts[1].text = S_highlights
     \/ section_name = S_education /\ field.parts[1].text = S_details
\* One <ul> element holding one <li> per string of the list, in list order.
IsListElementOf(body, list) ==
  /\ Len(body) = 3 * Len(list) + 2
  /\ IsMarkupIn(body[1], {"        <ul class=\"experience-highlights\">\n",
                          "        <ul class=\"education-details\">\n"})
  /\ body[Len(body)] = Markup("        </ul>\n")
  /\ \A j \in 1..Len(list) :
       /\ body[3 * j - 1] = Markup("          <li>")
       /\ body[3 * j] = Text(EscapedText(list[j]))
       /\ body[3 * j + 1] = Markup("</li>\n")

\* C14: a section whose one field is the single Reference `highlights` (of an
\* experience item) or `details` (of an education item) renders, for each
\* item, one unordered list with one list item per string in list order when
\* the list is non-empty, and nothing at all when the list is empty.
C14_ListFields ==
  (/\ result.status = "ok"
   /\ Len(layout) = 1
   /\ Len(layout[1].fields) = 1
   /\ IsListField(layout[1].name, layout[1].fields[1]))
  => LET items == ItemsOf(doc, layout[1].name)
         bodies == ItemBodies(result.html)
     IN /\ Len(bodies) = Len(items)
        /\ \A k \in 1..Len(items) :
             IF ListOf(layout[1].name, items[k]) = <<>>
               THEN bodies[k] = <<>>
               ELSE IsListElementOf(bodies[k], ListOf(layout[1].name, items[k]))

\* two education items, one rendered: an item with two details gives a list
\* of two list items
C14_Witness ==
  /\ result.status = "ok"
  /\ layout = <<Section(S_education, <<Field_new(<<FieldRef(S_details)>>)>>)>>
  /\ Len(doc.education) >= 1
  /\ Len(doc.education[1].details) = 2
  /\ Len(ItemBodies(result.html)[1]) = 8

\* C15: generate_html returns a complete markup (from the document type to
\* the closing html tag, the sections in between) exactly when the template
\* is the known one, and for every other template it fails with the unknown
\* template error and returns no markup, whatever the layout and document.
C15_TemplateSelector ==
  result.status # "none" =>
    IF template = "minimal"
      THEN /\ result.status = "ok"
           /\ result.error = ""
           /\ Len(result.html) >= Len(DocumentHead(doc)) + Len(DocumentTail)
           /\ result.html[1] = Markup("<!DOCTYPE html>\n")
           /\ result.html[Len(result.html)] = Markup("</html>\n")
           /\ Cardinality({i \in 1..Len(result.html) : result.html[i] = Markup("</html>\n")}) = 1
      ELSE /\ result.status = "err"
           /\ result.error = "Unknown template"
           /\ result.html = <<>>

\* the unknown template with a layout and a document that would render
C15_Witness ==
  /\ template = "jake"
  /\ result.status = "err"
  /\ layout = <<Section(S_person, <<Field_new(<<FieldRef(S_name)>>)>>)>>
  /\ doc = TestDocument

====
